---- MODULE Spec2Model ----
(***************************************************************************)
(* Fantasy Golf Tracker (src/main.py): the process-wide tracked_users set, *)
(* the add / remove / fetch-user handlers, the subscribe stream that       *)
(* patches each connected viewer, and get_all_entries' ordering.           *)
(*                                                                         *)
(* A username is a sequence of one-character strings, so that str.lower()  *)
(* and str.strip() are computed and not assumed.                           *)
(***************************************************************************)
EXTENDS Integers, Sequences, FiniteSets, Bags, TLC

VARIABLES
    tracked_users,  \* main.py:18, the set of tracked usernames
    subs,           \* connections whose subscribe handler is iterating the relay
    queue,          \* per connection: events published and not yet handled by it
    view,           \* per connection: bag of the rows its page shows
    pending,        \* /fetch-user requests issued by loading rows, not yet served
    response,       \* what the most recent request was answered with
    pc,             \* position of get_all_entries
    todo,           \* get_all_entries: usernames the for loop still has to visit
    entries,        \* get_all_entries: the local list `entries`
    trip            \* an add request and the remove request that follows it

vars == <<tracked_users, subs, queue, view, pending, response, pc, todo, entries,
          trip>>

-----------------------------------------------------------------------------
(* Bounds of the model *)

\* events a connection may have waiting
MaxQueue == 2
\* rows a view may hold
MaxRows == 3
\* fantasyPoints range over -MaxPoints .. MaxPoints
MaxPoints == 2
\* entries in one entrySearch response
MaxResults == 2

-----------------------------------------------------------------------------
(* Strings *)

\* the seed of tracked_users
Seed == <<"d", "e", "u", "f", "e", "l">>

LowerChar(c) ==
    CASE c = "A" -> "a"
      [] c = "B" -> "b"
      [] c = "D" -> "d"
      [] OTHER -> c

\* str.lower()
lower(s) == [i \in DOMAIN s |-> LowerChar(s[i])]

IsSpace(c) == c = " "

RECURSIVE lstrip(_)
lstrip(s) == IF s # <<>> /\ IsSpace(Head(s)) THEN lstrip(Tail(s)) ELSE s

RECURSIVE rstrip(_)
rstrip(s) ==
    IF s # <<>> /\ IsSpace(s[Len(s)]) THEN rstrip(SubSeq(s, 1, Len(s) - 1)) ELSE s

\* str.strip()
strip(s) == rstrip(lstrip(s))

\* the usernames requests carry: empty, blank, padded, upper and lower case
UserInputs ==
    { <<>>, <<" ">>, <<"a">>, <<"A">>, <<" ", "a">>, Seed }

-----------------------------------------------------------------------------
(* Entry lookup (search_entry) and get_all_entries' ordering *)

None == [none |-> TRUE]

\* a present fantasyPoints is <<p>>, an absent key is <<>>
PointVals == { <<p>> : p \in (0 - MaxPoints) .. MaxPoints } \cup { <<>> }

\* the entries an entrySearch result is made of
RemoteEntries(names, points) == [username : names, fantasyPoints : points]

DistinctUsers(s) == \A i, j \in DOMAIN s : s[i].username = s[j].username => i = j

\* what httpx.post yields: a timeout / request error (ok = FALSE), or the
\* entrySearch list
Responses(names, points) ==
    { [ok |-> FALSE, results |-> <<>>] } \cup
    { [ok |-> TRUE, results |-> r] :
        r \in UNION { { x \in [1..n -> RemoteEntries(names, points)] : DistinctUsers(x) }
                      : n \in 0..MaxResults } }

RECURSIVE FirstExact(_, _)
FirstExact(username, results) ==
    IF results = <<>> THEN None
    ELSE IF lower(Head(results).username) = lower(username) THEN Head(results)
    ELSE FirstExact(username, Tail(results))

search_entry(username, resp) ==
    IF ~resp.ok THEN None
    ELSE LET exact == FirstExact(username, resp.results)
         IN  IF exact # None THEN exact
             ELSE IF resp.results # <<>> THEN resp.results[1] ELSE None

\* the element get_all_entries appends for one username
EntryFor(username, resp) ==
    LET entry == search_entry(username, resp)
    IN  IF entry # None
        THEN [username |-> entry.username, fantasyPoints |-> entry.fantasyPoints,
              not_found |-> FALSE]
        ELSE [username |-> username, fantasyPoints |-> <<>>, not_found |-> TRUE]

\* e.get('fantasyPoints', 0)
PointsOf(e) == IF e.fantasyPoints = <<>> THEN 0 ELSE e.fantasyPoints[1]

\* the sort key with the not-found sentinel one higher: 0 instead of -1
SortKeyZeroSentinel(e) == IF ~e.not_found THEN PointsOf(e) ELSE 0

\* key of entries.sort
SortKey(e) == IF ~e.not_found THEN PointsOf(e) ELSE -1

\* list.sort(key=..., reverse=True): stable, equal keys keep their order
RECURSIVE InsertDesc(_, _)
InsertDesc(e, sorted) ==
    IF sorted = <<>> THEN <<e>>
    ELSE IF SortKey(Head(sorted)) >= SortKey(e)
         THEN <<Head(sorted)>> \o InsertDesc(e, Tail(sorted))
         ELSE <<e>> \o sorted

RECURSIVE SortDesc(_)
SortDesc(s) ==
    IF s = <<>> THEN <<>>
    ELSE InsertDesc(s[Len(s)], SortDesc(SubSeq(s, 1, Len(s) - 1)))

\* the orders in which `for username in tracked_users` may visit a set
Orders(S) ==
    { s \in [1..Cardinality(S) -> S] : \A i, j \in DOMAIN s : s[i] = s[j] => i = j }

-----------------------------------------------------------------------------
(* Views: the rows a page shows. A row records the tracked username it was  *)
(* rendered for and the id it carries, row-<id>.                            *)

Clients == {"c1", "c2"}

\* username_lower of leaderboard_table: taken from the entry that was found
RowId(username, resp) == lower(EntryFor(username, resp).username)

\* tbody of leaderboard_table: one row per tracked username
Rows(S, resp) == SetToBag({ [user |-> u, id |-> RowId(u, resp[u])] : u \in S })

\* loading_row(payload)
loading_row(username) == [user |-> lower(username), id |-> lower(username)]

\* the page's follow-up request, data.init of the loading row
InitFetch(username) == lower(username)

\* mode="remove" with selector #row-<id>
RemoveRows(v, id) == [r \in { x \in DOMAIN v : x.id # id } |-> v[r]]

\* how many rows of a view stand for username u
RowCount(v, u) == BagCardinality([r \in { x \in DOMAIN v : x.user = u } |-> v[r]])

ViewUsers(c) == { r.user : r \in BagToSet(view[c]) }

\* the lookups one render may see
RenderResponses == Responses({ <<"A">> }, { <<0>> })

-----------------------------------------------------------------------------
(* Relay: publish hands the event to every connection subscribed now *)

Event(kind, payload) == [kind |-> kind, payload |-> payload]

publish(ev) == [c \in Clients |-> IF c \in subs THEN Append(queue[c], ev) ELSE queue[c]]

CanPublish == \A c \in subs : Len(queue[c]) < MaxQueue

-----------------------------------------------------------------------------
(* Handlers *)

\* no request answered yet
NoResponse == [status |-> 0, patch |-> <<>>]

\* w.empty(204)
Empty204 == [status |-> 204, patch |-> <<>>]

\* w.patch("", selector=#row-<id>, mode="remove"): a 200 event stream
RemovePatch(id) == [status |-> 200, patch |-> <<[selector |-> id, mode |-> "remove"]>>]

\* line 255 without the lower(): the membership test on the name as typed
AddAcceptsAsTyped(username, S) == username # <<>> /\ username \notin S

\* line 255: `if username and username.lower() not in tracked_users`
AddAccepts(username, S) == username # <<>> /\ lower(username) \notin S

\* line 256 storing the name as typed
AddedUserAsTyped(username) == username

\* line 256: the member tracked_users.add inserts
AddedUser(username) == lower(username)

\* POST /add with signal newUser
add_user(newUser) ==
    LET username == strip(newUser)
        ev == Event("add", username)
    IN  /\ IF AddAccepts(username, tracked_users)
           THEN /\ CanPublish
                /\ tracked_users' = tracked_users \cup {AddedUser(username)}
                /\ queue' = publish(ev)
                /\ response' = Empty204
           ELSE /\ UNCHANGED <<tracked_users, queue>>
                /\ response' = Empty204
        /\ UNCHANGED <<subs, view, pending, pc, todo, entries>>

\* line 264 discarding the name as given
DiscardedUserAsGiven(username) == username

\* line 264: the member tracked_users.discard removes
DiscardedUser(username) == lower(username)

\* line 267 selecting the row by the name as given
RowSelectorAsGiven(username) == username

\* line 267: the id in the selector #row-<id>
RowSelector(username) == lower(username)

\* POST /remove?user=username, sent by the page of connection r
remove_user(r, username) ==
    LET ev == Event("remove", username)
        sel == RowSelector(username)
    IN  /\ CanPublish
        /\ tracked_users' = tracked_users \ {DiscardedUser(username)}
        /\ view' = [view EXCEPT ![r] = RemoveRows(@, sel)]
        /\ queue' = publish(ev)
        /\ response' = RemovePatch(sel)
        /\ UNCHANGED <<subs, pending, pc, todo, entries>>

\* line 274 testing the name as given
IsTrackedAsGiven(username, S) == username \in S

\* line 274: `username.lower() not in tracked_users`, negated
IsTracked(username, S) == lower(username) \in S

\* the body of GET /fetch-user?user=username
fetch_user(username) ==
    LET ev == Event("refresh", username)
    IN  /\ IF IsTracked(username, tracked_users)
           THEN /\ CanPublish
                /\ queue' = publish(ev)
                /\ response' = Empty204
           ELSE /\ UNCHANGED queue
                /\ response' = Empty204
        /\ UNCHANGED <<tracked_users, subs, view, pc, todo, entries, trip>>

\* a fetch-user request sent by a client
FetchRequest(username) == fetch_user(username) /\ UNCHANGED pending

\* the fetch-user request a loading row issues when it is inserted
FollowUpFetch(c, username) ==
    /\ <<c, username>> \in pending
    /\ fetch_user(username)
    /\ pending' = pending \ {<<c, username>>}

\* GET /subscribe, up to the first wait on the relay: the current leaderboard
\* is patched in and the connection is subscribed
subscribe(c) ==
    /\ c \notin subs
    /\ \E resp \in [tracked_users -> RenderResponses] :
           view' = [view EXCEPT ![c] = Rows(tracked_users, resp)]
    /\ subs' = subs \cup {c}
    /\ queue' = [queue EXCEPT ![c] = <<>>]
    /\ UNCHANGED <<tracked_users, pending, response, pc, todo, entries, trip>>

\* the else branch of the loop leaving the page as it is
KeepView(v, rows) == v

\* lines 247-249: any event but add replaces the whole tracker view
FullRefresh(v, rows) == rows

\* one iteration of the `async for` of subscribe
on_event(c) ==
    /\ c \in subs
    /\ queue[c] # <<>>
    /\ LET ev == Head(queue[c])
       IN  IF ev.kind = "add"
           THEN /\ BagCardinality(view[c]) < MaxRows
                /\ view' = [view EXCEPT ![c] = @ (+) SetToBag({loading_row(ev.payload)})]
                /\ pending' = pending \cup {<<c, InitFetch(ev.payload)>>}
           ELSE /\ \E resp \in [tracked_users -> RenderResponses] :
                       view' = [view EXCEPT ![c] =
                                   FullRefresh(@, Rows(tracked_users, resp))]
                /\ UNCHANGED pending
    /\ queue' = [queue EXCEPT ![c] = Tail(@)]
    /\ UNCHANGED <<tracked_users, subs, response, pc, todo, entries, trip>>

\* the connection closes: w.alive ends the loop and the page is gone
disconnect(c) ==
    /\ c \in subs
    /\ subs' = subs \ {c}
    /\ queue' = [queue EXCEPT ![c] = <<>>]
    /\ view' = [view EXCEPT ![c] = EmptyBag]
    /\ UNCHANGED <<tracked_users, pending, response, pc, todo, entries, trip>>

NoTrip == [phase |-> "start", user |-> <<>>, before |-> {}]

Init ==
    /\ tracked_users = {Seed}
    /\ subs = {}
    /\ queue = [c \in Clients |-> <<>>]
    /\ view = [c \in Clients |-> EmptyBag]
    /\ pending = {}
    /\ response = NoResponse
    /\ pc = "idle"
    /\ todo = <<>>
    /\ entries = <<>>
    /\ trip = NoTrip

AddRequest(u) == add_user(u) /\ UNCHANGED trip

RemoveRequest(r, u) == remove_user(r, u) /\ UNCHANGED trip

\* the page that keeps a subscribe stream open in Spec; the other page only
\* sends requests
Viewers == {"c1"}

\* one viewer, every kind of input
Next ==
    \/ \E u \in UserInputs : AddRequest(u)
    \/ \E r \in Clients, u \in UserInputs : RemoveRequest(r, u)
    \/ \E u \in UserInputs : FetchRequest(u)
    \/ \E p \in pending : FollowUpFetch(p[1], p[2])
    \/ \E c \in Viewers : subscribe(c)
    \/ \E c \in Clients : on_event(c)
    \/ \E c \in Clients : disconnect(c)

Spec == Init /\ [][Next]_vars

\* the inputs of SpecPair: an upper-case name and the seed
PairInputs == { <<"A">>, Seed }

\* both pages subscribe; fewer inputs, and fetch-user comes from loading rows
\* only
NextPair ==
    \/ \E u \in PairInputs : AddRequest(u)
    \/ \E r \in Clients, u \in PairInputs : RemoveRequest(r, u)
    \/ \E p \in pending : FollowUpFetch(p[1], p[2])
    \/ \E c \in Clients : subscribe(c)
    \/ \E c \in Clients : on_event(c)
    \/ \E c \in Clients : disconnect(c)

SpecPair == Init /\ [][NextPair]_vars

-----------------------------------------------------------------------------
(* get_all_entries on its own: any tracked set, any visiting order, any     *)
(* lookup outcome per user                                                  *)

\* tracked sets the handlers can build: lowercase, trimmed, non-empty names
EntryUsers == { Seed, <<"a">>, <<"a", "b">> }

\* usernames the contest API answers with
EntryNames == { <<"A">>, <<"a", "b">> }

\* lines 95-100: one iteration of the for loop
Lookup ==
    /\ pc = "loop"
    /\ todo # <<>>
    /\ \E resp \in Responses(EntryNames, PointVals) :
           entries' = Append(entries, EntryFor(Head(todo), resp))
    /\ todo' = Tail(todo)
    /\ UNCHANGED <<tracked_users, subs, queue, view, pending, response, pc, trip>>

\* lines 101-102: sort and return
SortEntries ==
    /\ pc = "loop"
    /\ todo = <<>>
    /\ entries' = SortDesc(entries)
    /\ pc' = "done"
    /\ UNCHANGED <<tracked_users, subs, queue, view, pending, response, todo, trip>>

InitEntries ==
    /\ tracked_users \in SUBSET EntryUsers
    /\ subs = {}
    /\ queue = [c \in Clients |-> <<>>]
    /\ view = [c \in Clients |-> EmptyBag]
    /\ pending = {}
    /\ response = NoResponse
    /\ pc = "loop"
    /\ todo \in Orders(tracked_users)
    /\ entries = <<>>
    /\ trip = NoTrip

NextEntries == Lookup \/ SortEntries

SpecEntries == InitEntries /\ [][NextEntries]_vars

-----------------------------------------------------------------------------
(* An add request followed at once by the remove request for the same name, *)
(* from any tracked set the handlers can build                              *)

TripInputs ==
    UserInputs \cup { <<"a", "b">>, <<"A", "b">>, <<"a", "B", " ">>, <<" ", " ">> }

TripUsers == { Seed, <<"a">>, <<"a", "b">> }

TripAdd(u) ==
    /\ trip.phase = "start"
    /\ add_user(u)
    /\ trip' = [phase |-> "added", user |-> u, before |-> tracked_users]

TripRemove(r) ==
    /\ trip.phase = "added"
    /\ remove_user(r, trip.user)
    /\ trip' = [trip EXCEPT !.phase = "removed"]

InitTrip ==
    /\ tracked_users \in SUBSET TripUsers
    /\ subs = {}
    /\ queue = [c \in Clients |-> <<>>]
    /\ view = [c \in Clients |-> EmptyBag]
    /\ pending = {}
    /\ response = NoResponse
    /\ pc = "idle"
    /\ todo = <<>>
    /\ entries = <<>>
    /\ trip = NoTrip

NextTrip ==
    \/ \E u \in TripInputs : TripAdd(u)
    \/ \E r \in Clients : TripRemove(r)

SpecTrip == InitTrip /\ [][NextTrip]_vars

-----------------------------------------------------------------------------
(* Properties *)

\* u is tracked, comparing case-insensitively
TrackedCI(u, S) == \E m \in S : lower(m) = lower(u)

\* every subscribed connection is handed exactly the one event ev
PublishedOnce(ev) == \A c \in Clients :
    queue'[c] = IF c \in subs THEN Append(queue[c], ev) ELSE queue[c]

\* C1 as stated: after an add request for u and the remove request for u that
\* follows it, the Tracked-User Set equals the set before the add, for every u
\* and every set, the sets that already contain u included.
C1_RoundTripAlways == trip.phase = "removed" => tracked_users = trip.before

\* C1 amended: the round trip restores the set when u carries no leading or
\* trailing whitespace and is not yet tracked (case-insensitively).
C1_RoundTripFresh ==
    (/\ trip.phase = "removed"
     /\ strip(trip.user) = trip.user
     /\ ~TrackedCI(trip.user, trip.before))
    => tracked_users = trip.before

\* an upper-case name that was not tracked has been added and removed again
C1_Witness ==
    /\ trip.phase = "removed"
    /\ trip.user = <<"A">>
    /\ <<"a">> \notin trip.before
    /\ Seed \in trip.before

PointsNonIncreasing ==
    \A i, j \in DOMAIN entries :
        (i < j /\ ~entries[i].not_found /\ ~entries[j].not_found)
            => PointsOf(entries[i]) >= PointsOf(entries[j])

\* C2 as stated: in the list get_all_entries returns, found entries are in
\* non-increasing order of points and every not-found entry comes after every
\* found entry, whatever the points and the visiting order.
C2_NotFoundLast ==
    pc = "done" =>
        /\ PointsNonIncreasing
        /\ \A i, j \in DOMAIN entries :
               (entries[i].not_found /\ ~entries[j].not_found) => j < i

\* C2 amended: found entries are in non-increasing order of points, and every
\* not-found entry comes after every found entry whose points are above the
\* not-found sentinel -1.
C2_NotFoundAfterScored ==
    pc = "done" =>
        /\ PointsNonIncreasing
        /\ \A i, j \in DOMAIN entries :
               (entries[i].not_found /\ ~entries[j].not_found
                    /\ PointsOf(entries[j]) > -1) => j < i

\* a returned list with two found entries of different points, one of them at
\* zero points, and a not-found entry
C2_Witness ==
    /\ pc = "done"
    /\ Len(entries) = 3
    /\ entries[3].not_found
    /\ ~entries[1].not_found /\ ~entries[2].not_found
    /\ PointsOf(entries[1]) > PointsOf(entries[2])
    /\ PointsOf(entries[2]) = 0

\* C3: POST /add changes the set only when the trimmed name is non-empty and
\* its lowercase form is not tracked; then exactly that lowercase name is
\* inserted and exactly one add event is published; otherwise the set is
\* unchanged and nothing is published. Either way the answer is an empty 204.
C3_AddEffect ==
    [][\A u \in UserInputs : AddRequest(u) =>
          /\ IF strip(u) # <<>> /\ lower(strip(u)) \notin tracked_users
             THEN /\ tracked_users' = tracked_users \cup {lower(strip(u))}
                  /\ PublishedOnce(Event("add", strip(u)))
             ELSE /\ tracked_users' = tracked_users
                  /\ queue' = queue
          /\ response' = Empty204]_vars

\* an add of an upper-case, padded or plain "a" went through and its event
\* waits at a subscriber
C3_Witness ==
    /\ <<"a">> \in tracked_users
    /\ response = Empty204
    /\ \E c \in subs : queue[c] # <<>> /\ queue[c][Len(queue[c])].kind = "add"

\* C4: every member of the Tracked-User Set is stored in lowercase, so no two
\* members are equal case-insensitively.
C4_StoredLowercase ==
    /\ \A m \in tracked_users : lower(m) = m
    /\ \A m, n \in tracked_users : lower(m) = lower(n) => m = n

\* "A" was added (its add event still waits at a subscriber) and is tracked
C4_Witness ==
    /\ <<"a">> \in tracked_users
    /\ \E c \in subs : \E i \in DOMAIN queue[c] :
           queue[c][i] = Event("add", <<"A">>)

\* a subscriber takes a remove event off its queue
HandlesRemove(c, u) ==
    /\ c \in subs /\ c \in subs'
    /\ queue[c] # <<>>
    /\ Head(queue[c]) = Event("remove", u)
    /\ queue'[c] = Tail(queue[c])

\* what POST /remove?user=u does at once
RemoveEffect(r, u) ==
    /\ \A m \in tracked_users' : lower(m) # lower(u)
    /\ response'.patch = <<[selector |-> lower(u), mode |-> "remove"]>>
    /\ \A row \in BagToSet(view'[r]) : row.id # lower(u)
    /\ PublishedOnce(Event("remove", u))

C8_FetchEffect ==
    [][\A u \in UserInputs :
          (FetchRequest(u) \/ \E c \in Clients : FollowUpFetch(c, u)) =>
              /\ tracked_users' = tracked_users
              /\ IF TrackedCI(u, tracked_users)
                 THEN PublishedOnce(Event("refresh", u))
                 ELSE queue' = queue
              /\ response' = Empty204]_vars

\* a fetch-user for "A" found "a" tracked and its refresh waits at a subscriber
C8_Witness ==
    /\ response = Empty204
    /\ <<"a">> \in tracked_users
    /\ \E c \in subs : queue[c] # <<>>
           /\ queue[c][Len(queue[c])] = Event("refresh", <<"A">>)

\* nothing is waiting: every event was handled and every follow-up fetch served
Quiescent == pending = {} /\ \A c \in Clients : queue[c] = <<>>

C10_OneRowPerUser ==
    \A c \in subs : \A u \in tracked_users : RowCount(view[c], u) <= 1

====
